---- MODULE Spec2Model ----
(***************************************************************************)
(* Model of excel_to_kml.py: the Excel -> KML converter.                   *)
(*                                                                         *)
(* Text is modelled as a sequence of one-character strings, so that        *)
(* trimming, replacing, splitting and escaping are computed the way the    *)
(* Python code computes them.  A spreadsheet cell read with dtype=str is   *)
(* either NaN (an empty cell) or a text.                                   *)
(***************************************************************************)
EXTENDS Integers, Sequences, FiniteSets, TLC

\* ------------------------------------------------------------ bounds
\* longest coordinate text explored by the ensure_float specification
MaxLen == 3
\* most data rows in a sheet
MaxRows == 3
\* most files in the input directory
MaxFiles == 3

\* ------------------------------------------------------------ text
\* U+00A0, the non-breaking space, written as a one-character token
NBSP == "nbsp"
TAB == "\t"
NL == "\n"
\* the characters Python's str.strip() (no argument) removes
Whitespace == {" ", TAB, NL, NBSP}

Digits == {"0", "1", "2", "3", "4", "5", "6", "7", "8", "9"}

DigitVal(c) ==
    CASE c = "0" -> 0 [] c = "1" -> 1 [] c = "2" -> 2 [] c = "3" -> 3
      [] c = "4" -> 4 [] c = "5" -> 5 [] c = "6" -> 6 [] c = "7" -> 7
      [] c = "8" -> 8 [] c = "9" -> 9

\* a cell of the data frame: NaN, or a text
NaN == [isna |-> TRUE, s |-> <<>>]
Str(t) == [isna |-> FALSE, s |-> t]

\* pd.isna(cell)
isna(cell) == cell.isna

\* str(cell): str(float('nan')) is the text "nan"
str(cell) == IF cell.isna THEN <<"n", "a", "n">> ELSE cell.s

\* s.lstrip()
RECURSIVE lstrip(_)
lstrip(s) ==
    IF s # <<>> /\ Head(s) \in Whitespace THEN lstrip(Tail(s)) ELSE s

\* s.rstrip()
RECURSIVE rstrip(_)
rstrip(s) ==
    IF s # <<>> /\ s[Len(s)] \in Whitespace
    THEN rstrip(SubSeq(s, 1, Len(s) - 1))
    ELSE s

\* s.strip()
strip(s) == rstrip(lstrip(s))

\* the concatenation of a sequence of texts (halving, to keep the
\* evaluation shallow on long texts)
RECURSIVE Concat(_)
Concat(ss) ==
    IF ss = <<>> THEN <<>>
    ELSE IF Len(ss) = 1 THEN ss[1]
    ELSE LET h == Len(ss) \div 2
         IN  Concat(SubSeq(ss, 1, h)) \o Concat(SubSeq(ss, h + 1, Len(ss)))

\* s.replace(a, b) for a one-character a and a text b
replace(s, a, b) ==
    Concat([i \in 1..Len(s) |-> IF s[i] = a THEN b ELSE <<s[i]>>])

\* all texts over an alphabet, of length at most n
RECURSIVE TextsUpTo(_, _)
TextsUpTo(alphabet, n) ==
    IF n = 0 THEN {<<>>}
    ELSE LET shorter == TextsUpTo(alphabet, n - 1)
         IN  shorter \cup {Append(t, c) : t \in shorter, c \in alphabet}

\* ------------------------------------------------------------ floats
\* A float is kept exactly, as num / den with den a power of ten and no
\* trailing zero in the fraction, so that equal values are equal records.
NoFloat == [none |-> TRUE, num |-> 0, den |-> 1]
RECURSIVE Reduce(_, _)
Reduce(num, den) ==
    IF den > 1 /\ num % 10 = 0 THEN Reduce(num \div 10, den \div 10)
    ELSE [none |-> FALSE, num |-> num, den |-> den]

\* value of a digit string, as an integer
RECURSIVE IntOf(_)
IntOf(ds) ==
    IF ds = <<>> THEN 0 ELSE IntOf(SubSeq(ds, 1, Len(ds) - 1)) * 10 + DigitVal(ds[Len(ds)])

RECURSIVE Pow10(_)
Pow10(n) == IF n = 0 THEN 1 ELSE 10 * Pow10(n - 1)

AllDigits(ds) == \A i \in 1..Len(ds) : ds[i] \in Digits

\* Python's float(text) on texts of digits, '.', sign and whitespace:
\* surrounding whitespace is skipped, then [sign] digits [. [digits]] or
\* [sign] . digits; anything else is a ValueError (NoFloat here).
PyFloat(text) ==
    LET t == strip(text)
        signed == t # <<>> /\ Head(t) \in {"-", "+"}
        body == IF signed THEN Tail(t) ELSE t
        dots == {i \in 1..Len(body) : body[i] = "."}
        ip == IF dots = {} THEN body
              ELSE SubSeq(body, 1, (CHOOSE i \in dots : TRUE) - 1)
        fp == IF dots = {} THEN <<>>
              ELSE SubSeq(body, (CHOOSE i \in dots : TRUE) + 1, Len(body))
        ok == /\ Cardinality(dots) <= 1
              /\ AllDigits(ip) /\ AllDigits(fp)
              /\ Len(ip) + Len(fp) >= 1
        mag == IntOf(ip) * Pow10(Len(fp)) + IntOf(fp)
    IN  IF ~ok THEN NoFloat
        ELSE Reduce(IF signed /\ Head(t) = "-" THEN -mag ELSE mag, Pow10(Len(fp)))

\* ensure_float(s), for a cell read with dtype=str (never an int or float
\* object, so line 49 is not taken)
ensure_float(cell) ==
    IF isna(cell) THEN NoFloat
    ELSE PyFloat(replace(replace(strip(str(cell)), " ", <<>>), ",", <<".">>))

\* in_range_lat_lon with the longitude limit used for the latitude too
in_range_lat_lon_lat180(lat, lon) ==
    /\ ~lat.none
    /\ ~lon.none
    /\ -180 * lat.den <= lat.num /\ lat.num <= 180 * lat.den
    /\ -180 * lon.den <= lon.num /\ lon.num <= 180 * lon.den

\* in_range_lat_lon(lat, lon)
in_range_lat_lon(lat, lon) ==
    /\ ~lat.none
    /\ ~lon.none
    /\ -90 * lat.den <= lat.num /\ lat.num <= 90 * lat.den
    /\ -180 * lon.den <= lon.num /\ lon.num <= 180 * lon.den

\* ------------------------------------------------------------ ordering
\* code-point order of the characters used (Python compares str by code point;
\* U+00A0 comes after every ASCII character)
CharOrder ==
    <<TAB, NL, " ", "$", "-", ".", "0", "1", "2", "3", "4", "5", "6", "7",
      "8", "9", "A", "B", "K", "M", "a", "b", "k", "l", "m", "n", "s", "t",
      "x", "~", NBSP>>
Code(c) == CHOOSE i \in 1..Len(CharOrder) : CharOrder[i] = c

\* a < b for two texts, as Python compares str
RECURSIVE LexLess(_, _)
LexLess(a, b) ==
    IF b = <<>> THEN FALSE
    ELSE IF a = <<>> THEN TRUE
    ELSE IF Head(a) = Head(b) THEN LexLess(Tail(a), Tail(b))
    ELSE Code(Head(a)) < Code(Head(b))

\* sorted(S) for a finite set of texts
RECURSIVE sorted(_)
sorted(S) ==
    IF S = {} THEN <<>>
    ELSE LET least == CHOOSE x \in S : \A y \in S \ {x} : LexLess(x, y)
         IN  <<least>> \o sorted(S \ {least})

\* ------------------------------------------------------------ description
\* labels of build_description, transliterated: each is one token
LabelAddr == "Adres:"
LabelObj == "Obekt:"
LabelTopic == "Problema:"
LabelText == "Tekst:"
LabelPhoto == "Foto:"

\* html.escape(s) (quote=True)
html_escape(s) ==
    Concat([i \in 1..Len(s) |->
        CASE s[i] = "&" -> <<"&", "amp;">>
          [] s[i] = "<" -> <<"&", "lt;">>
          [] s[i] = ">" -> <<"&", "gt;">>
          [] s[i] = "\"" -> <<"&", "quot;">>
          [] s[i] = "'" -> <<"&", "#x27;">>
          [] OTHER -> <<s[i]>>])

\* bool(cell): a text is true when not empty; float('nan') is true
truthy(cell) == cell.isna \/ cell.s # <<>>

\* f"<b>{label}</b> {html.escape(str(cell))}"
Labelled(label, cell) ==
    <<"<", "b", ">", label, "<", "/", "b", ">", " ">> \o html_escape(str(cell))

\* sep.join(parts)
join(sep, parts) ==
    Concat([i \in 1..Len(parts) |->
        IF i = 1 THEN parts[i] ELSE sep \o parts[i]])

\* the <a> elements of lines 113-118, for links[i..]
RECURSIVE Anchors(_, _)
Anchors(links, i) ==
    IF i > Len(links) THEN <<>>
    ELSE LET u == strip(links[i])
         IN  (IF u = <<>> THEN <<>>
              ELSE << <<"<", "a", " ", "href=", "\"">> \o html_escape(u)
                      \o <<"\"", " ", "target=", "\"", "_blank", "\"", ">",
                           "Foto ", ToString(i), "<", "/", "a", ">">> >>)
             \o Anchors(links, i + 1)

\* build_description(addr, obj, topic, text, links)
build_description(addr, obj, topic, text, links) ==
    LET a == Anchors(links, 1)
        parts ==
            (IF truthy(addr) THEN <<Labelled(LabelAddr, addr)>> ELSE <<>>)
            \o (IF truthy(obj) THEN <<Labelled(LabelObj, obj)>> ELSE <<>>)
            \o (IF truthy(topic) THEN <<Labelled(LabelTopic, topic)>> ELSE <<>>)
            \o (IF truthy(text) THEN <<Labelled(LabelText, text)>> ELSE <<>>)
            \o (IF links # <<>> /\ a # <<>>
                THEN << <<"<", "b", ">", LabelPhoto, "<", "/", "b", ">", " ">>
                        \o join(<<" ", "|", " ">>, a) >>
                ELSE <<>>)
        html_block == join(<<"<", "br", "/", ">">>, parts)
    IN  <<"<", "!", "[", "CDATA", "[">> \o html_block \o <<"]", "]", ">">>

\* s.split(";")
RECURSIVE split(_, _)
split(s, cur) ==
    IF s = <<>> THEN <<cur>>
    ELSE IF Head(s) = ";" THEN <<cur>> \o split(Tail(s), <<>>)
    ELSE split(Tail(s), Append(cur, Head(s)))

RECURSIVE StripNonEmpty(_)
StripNonEmpty(segs) ==
    IF segs = <<>> THEN <<>>
    ELSE (IF strip(Head(segs)) # <<>> THEN <<strip(Head(segs))>> ELSE <<>>)
         \o StripNonEmpty(Tail(segs))

\* lines 215-216: links_raw = cell or ""; the stripped non-blank segments
\* of str(links_raw).split(";").  NaN is true, so "or" keeps it.
links_of(cell) ==
    LET links_raw == IF truthy(cell) THEN cell ELSE Str(<<>>)
    IN  StripNonEmpty(split(str(links_raw), <<>>))

\* ElementTree's _escape_cdata, applied by ET.tostring to an element's text
escape_cdata(s) ==
    Concat([i \in 1..Len(s) |->
        CASE s[i] = "&" -> <<"&", "amp;">>
          [] s[i] = "<" -> <<"&", "lt;">>
          [] s[i] = ">" -> <<"&", "gt;">>
          [] OTHER -> <<s[i]>>])

\* text.replace("><", ">\n<"): two occurrences of "><" never overlap, so
\* every ">" directly followed by "<" gets a line break after it
break_tags(s) ==
    Concat([i \in 1..Len(s) |->
        IF s[i] = ">" /\ i < Len(s) /\ s[i + 1] = "<"
        THEN <<">", NL>> ELSE <<s[i]>>])

\* lines 233-234 for one <description> element with the given text
tostring_description(text) ==
    break_tags(<<"<", "description", ">">> \o escape_cdata(text)
               \o <<"<", "/", "description", ">">>)

\* ------------------------------------------------------------ paths
\* c.lower() for the letters used in file names
lower_char(c) ==
    CASE c = "X" -> "x" [] c = "L" -> "l" [] c = "S" -> "s" [] c = "M" -> "m"
      [] OTHER -> c

\* s.lower()
lower(s) == [i \in 1..Len(s) |-> lower_char(s[i])]

\* name.rfind("."), 1-based; 0 when there is no dot
rfind_dot(name) ==
    LET dots == {i \in 1..Len(name) : name[i] = "."}
    IN  IF dots = {} THEN 0 ELSE CHOOSE i \in dots : \A j \in dots : j <= i

\* pathlib's Path.suffix
suffix(name) ==
    LET i == rfind_dot(name)
    IN  IF 1 < i /\ i < Len(name) THEN SubSeq(name, i, Len(name)) ELSE <<>>

\* pathlib's Path.stem
stem(name) ==
    LET i == rfind_dot(name)
    IN  IF 1 < i /\ i < Len(name) THEN SubSeq(name, 1, i - 1) ELSE name

XLSX == <<".", "x", "l", "s", "x">>
XLSM == <<".", "x", "l", "s", "m">>

\* line 131: excel_path.suffix.lower() in {".xlsx", ".xlsm"}
suffix_supported(name) == lower(suffix(name)) \in {XLSX, XLSM}

\* ------------------------------------------------------------ conversion
\* lines 135-146: the required columns, in the order they are checked
\* (msg = message number, okrug, rayon = district, addr, obj, topic, text,
\* links = photo links, lat, lon)
required_cols ==
    <<"msg", "okrug", "rayon", "addr", "obj", "topic", "text", "links",
      "lat", "lon">>

AllColumns == {required_cols[i] : i \in 1..Len(required_cols)}

\* lines 147-149: index of the column the loop raises for; 0 when none is
\* missing
missing_col(columns) ==
    LET miss == {i \in 1..Len(required_cols) : required_cols[i] \notin columns}
    IN  IF miss = {} THEN 0 ELSE CHOOSE i \in miss : \A j \in miss : i <= j

\* valid_row with its two rules in the other order
valid_row_coords_first(row, lat, lon, k) ==
    IF ~in_range_lat_lon(lat, lon)
    THEN [valid |-> FALSE,
          problems |-> <<[reason |-> "coords", row |-> k,
                          lat |-> row.lat, lon |-> row.lon]>>]
    ELSE IF isna(row.msg) \/ strip(str(row.msg)) = <<>>
    THEN [valid |-> FALSE,
          problems |-> <<[reason |-> "empty", row |-> k,
                          lat |-> NaN, lon |-> NaN]>>]
    ELSE [valid |-> TRUE, problems |-> <<>>]

\* valid_row(row), lines 157-167: what it returns and what it appends to
\* problems; k is the row's position, row.name + 1
valid_row(row, lat, lon, k) ==
    IF isna(row.msg) \/ strip(str(row.msg)) = <<>>
    THEN [valid |-> FALSE,
          problems |-> <<[reason |-> "empty", row |-> k,
                          lat |-> NaN, lon |-> NaN]>>]
    ELSE IF ~in_range_lat_lon(lat, lon)
    THEN [valid |-> FALSE,
          problems |-> <<[reason |-> "coords", row |-> k,
                          lat |-> row.lat, lon |-> row.lon]>>]
    ELSE [valid |-> TRUE, problems |-> <<>>]

\* hashlib.md5(d.encode("utf-8")).hexdigest()[:8], kept symbolic: distinct
\* names have distinct digests
md5_hex8(d) == <<"md5(">> \o d \o <<")">>

\* line 180: sid = f"style_{...}"
style_id(d) == <<"style_">> \o md5_hex8(d)

\* kml_color_from_district(d), kept symbolic
kml_color_from_district(d) == <<"color(">> \o d \o <<")">>

\* create_style(sid, color)
create_style(sid, color) == [id |-> sid, color |-> color, scale |-> "1.2"]

\* line 177: df_valid["Rayon"].dropna().unique() as a set; rows is df and
\* valid the positions kept in df_valid
district_set(rows, valid) ==
    {rows[valid[i]].rayon.s : i \in {j \in 1..Len(valid) : ~isna(rows[valid[j]].rayon)}}

\* get_okrug_folder without the lookup of line 189: a new folder each call
get_okrug_folder_always_new(st, okrug) ==
    [st EXCEPT
        !.doc.folders = Append(@, [name |-> okrug, folders |-> <<>>]),
        !.okrug_folders =
            [o \in DOMAIN @ \cup {okrug} |->
                IF o = okrug THEN Len(st.doc.folders) + 1 ELSE @[o]]]

\* get_okrug_folder(okrug), lines 188-193, on the state st =
\* [doc, okrug_folders, folder_map]; an element is named by its position
\* among its parent's folders
get_okrug_folder(st, okrug) ==
    IF okrug \notin DOMAIN st.okrug_folders
    THEN [st EXCEPT
            !.doc.folders = Append(@, [name |-> okrug, folders |-> <<>>]),
            !.okrug_folders = @ @@ (okrug :> (Len(st.doc.folders) + 1))]
    ELSE st

\* get_pair_folder(okrug, rayon), lines 195-202
get_pair_folder(st, okrug, rayon) ==
    LET key == <<okrug, rayon>>
    IN  IF key \notin DOMAIN st.folder_map
        THEN LET s1 == get_okrug_folder(st, okrug)
                 oi == s1.okrug_folders[okrug]
             IN  [s1 EXCEPT
                    !.doc.folders[oi].folders =
                        Append(@, [name |-> rayon, placemarks |-> <<>>]),
                    !.folder_map =
                        @ @@ (key :> <<oi, Len(s1.doc.folders[oi].folders) + 1>>)]
        ELSE st

\* lines 221-229: the Placemark of a row; row is the row's position, kept to
\* tell the placemarks of equal rows apart
placemark(r, k, lat, lon, rayon, styles) ==
    [name |-> strip(str(r.msg)),
     styleUrl |-> IF rayon \in DOMAIN styles THEN <<"#">> \o styles[rayon]
                  ELSE <<>>,
     description |-> build_description(r.addr, r.obj, r.topic, r.text,
                                       links_of(r.links)),
     coordinates |-> <<lon, lat, 0>>,
     row |-> k]

\* ------------------------------------------------------------ batch
\* derive_out_name(xlsx_path)
derive_out_name(name) == stem(name) \o <<".", "k", "m", "l">>

ends_with(name, tail) ==
    Len(name) >= Len(tail)
    /\ SubSeq(name, Len(name) - Len(tail) + 1, Len(name)) = tail

\* p.name.startswith("~$")
is_lock_file(name) == Len(name) >= 2 /\ name[1] = "~" /\ name[2] = "$"

\* collect_excel_files(in_dir): the names matching *.xlsx, then those
\* matching *.xlsm, lock files left out, sorted
collect_excel_files(names) ==
    sorted({n \in names : ends_with(n, XLSX) /\ ~is_lock_file(n)}
           \cup {n \in names : ends_with(n, XLSM) /\ ~is_lock_file(n)})

VARIABLES
    coord_in,      \* ensure_float: the cell given
    coord_out,     \* ensure_float: the value returned
    coord_pc,      \* "call" before the call, "returned" after it
    d_row,         \* description: the narrative cells of one validated row
    d_links,       \* description: links (line 216)
    d_desc,        \* description: desc.text (line 227)
    d_xml,         \* description: the serialized element (lines 233-234)
    d_pc,          \* "links", "describe", "serialize", "written"
    pc,            \* excel_to_kml: the statement to run next
    excel_path,    \* excel_to_kml: excel_path.name
    out_file,      \* the file at out_path
    df_columns,    \* df.columns
    df,            \* the rows of df
    lat_num,       \* the column df["Shirota_num"]
    lon_num,       \* the column df["Dolgota_num"]
    problems,      \* problems
    mask,          \* what df.apply(valid_row, axis=1) has returned so far
    df_valid,      \* positions in df of the rows of df_valid
    style_ids,     \* style_ids
    doc,           \* the Document element: name, styles, folders
    okrug_folders, \* okrug_folders
    folder_map,    \* folder_map
    written,       \* written
    it,            \* rows of df_valid the loop of line 205 has been through
    raised,        \* the exception excel_to_kml ended with
    ret,           \* the tuple excel_to_kml returned
    p_pc,          \* process_dir: "start", "loop", "done"
    in_dir_exists, \* in_dir.exists()
    in_dir,        \* the names of the files in in_dir
    out_made,      \* out_dir has been created (line 262)
    out_dir,       \* the files in out_dir: name -> the input it was made from
    excel_files,   \* excel_files
    xi,            \* files the loop of line 270 has been through
    ok_count,      \* ok_count
    log,           \* the [OK] and [ERR] lines printed, one record each
    conv_results,  \* how each call of excel_to_kml ended
    p_ret          \* what process_dir returned

floatVars == <<coord_in, coord_out, coord_pc>>
descVars == <<d_row, d_links, d_desc, d_xml, d_pc>>
convVars ==
    <<pc, excel_path, out_file, df_columns, df, lat_num, lon_num, problems,
      mask, df_valid, style_ids, doc, okrug_folders, folder_map, written, it,
      raised, ret>>
dirVars ==
    <<p_pc, in_dir_exists, in_dir, out_made, out_dir, excel_files, xi,
      ok_count, log, conv_results, p_ret>>
vars == <<floatVars, descVars, convVars, dirVars>>

NoDoc == [name |-> <<>>, styles |-> <<>>, folders |-> <<>>]
NoRaise == [type |-> "none", what |-> "none"]
NoReturn == [total |-> 0, written |-> 0, problems |-> <<>>]
Absent == [state |-> "absent", doc |-> NoDoc]
Old == [state |-> "old", doc |-> NoDoc]

IdleFloat == coord_in = NaN /\ coord_out = NoFloat /\ coord_pc = "idle"
IdleDesc ==
    /\ d_row = <<>> /\ d_links = <<>> /\ d_desc = <<>> /\ d_xml = <<>>
    /\ d_pc = "idle"
\* the locals of excel_to_kml before they are assigned
FreshLocals ==
    /\ df_columns = {} /\ df = <<>> /\ lat_num = <<>> /\ lon_num = <<>>
    /\ problems = <<>> /\ mask = <<>> /\ df_valid = <<>> /\ style_ids = <<>>
    /\ doc = NoDoc /\ okrug_folders = <<>> /\ folder_map = <<>>
    /\ written = 0 /\ it = 0 /\ raised = NoRaise /\ ret = NoReturn
IdleConv ==
    /\ pc = "idle" /\ excel_path = <<>> /\ out_file = Absent /\ FreshLocals
FreshDir ==
    /\ out_made = FALSE /\ out_dir = <<>> /\ excel_files = <<>> /\ xi = 0
    /\ ok_count = 0 /\ log = <<>> /\ conv_results = <<>> /\ p_ret = -1
IdleDir ==
    /\ p_pc = "idle" /\ in_dir_exists = FALSE /\ in_dir = {} /\ FreshDir

\* ------------------------------------------------------------ ensure_float
CoordChars == {"5", "0", ".", ",", "-", " ", TAB, NBSP, "x"}
\* an empty cell is read as NaN, never as an empty text
CoordCells ==
    {NaN} \cup {Str(t) : t \in TextsUpTo(CoordChars, MaxLen) \ {<<>>}}

InitFloat ==
    /\ coord_in \in CoordCells
    /\ coord_out = NoFloat
    /\ coord_pc = "call"
    /\ IdleDesc
    /\ IdleConv
    /\ IdleDir

CallEnsureFloat ==
    /\ coord_pc = "call"
    /\ coord_out' = ensure_float(coord_in)
    /\ coord_pc' = "returned"
    /\ UNCHANGED <<coord_in, descVars, convVars, dirVars>>

NextFloat == CallEnsureFloat

SpecFloat == InitFloat /\ [][NextFloat]_vars

\* ------------------------------------------------------------ description
\* narrative cells: empty, blank, plain, with markup characters
NarrativeCells == {NaN, Str(<<" ">>), Str(<<"x">>), Str(<<"a", "<", "b">>)}
LinkCells ==
    {NaN, Str(<<" ">>), Str(<<"u">>),
     Str(<<"u", " ", ";", " ", ";", " ", "v", "&", "w">>)}

InitDesc ==
    /\ d_row \in [addr : NarrativeCells, obj : NarrativeCells,
                  topic : NarrativeCells, text : NarrativeCells,
                  links : LinkCells]
    /\ d_links = <<>>
    /\ d_desc = <<>>
    /\ d_xml = <<>>
    /\ d_pc = "links"
    /\ IdleFloat
    /\ IdleConv
    /\ IdleDir

\* lines 211-216
SplitLinks ==
    /\ d_pc = "links"
    /\ d_links' = links_of(d_row.links)
    /\ d_pc' = "describe"
    /\ UNCHANGED <<d_row, d_desc, d_xml, floatVars, convVars, dirVars>>

\* lines 226-227
DescribeRow ==
    /\ d_pc = "describe"
    /\ d_desc' = build_description(d_row.addr, d_row.obj, d_row.topic,
                                   d_row.text, d_links)
    /\ d_pc' = "serialize"
    /\ UNCHANGED <<d_row, d_links, d_xml, floatVars, convVars, dirVars>>

\* lines 233-235
SerializeDescription ==
    /\ d_pc = "serialize"
    /\ d_xml' = tostring_description(d_desc)
    /\ d_pc' = "written"
    /\ UNCHANGED <<d_row, d_links, d_desc, floatVars, convVars, dirVars>>

NextDesc == SplitLinks \/ DescribeRow \/ SerializeDescription

SpecDesc == InitDesc /\ [][NextDesc]_vars

\* ------------------------------------------------------------ excel_to_kml
T(c) == <<c>>
\* input file names: a.xlsx, a.XLSM, a.xls
PathNames ==
    {<<"a", ".", "x", "l", "s", "x">>, <<"a", ".", "X", "L", "S", "M">>,
     <<"a", ".", "x", "l", "s">>}
OutName == <<"a", ".", "k", "m", "l">>

\* the narrative cells are explored by SpecDesc; here every row has an
\* address and nothing else
Row(msg, okrug, rayon, lat, lon) ==
    [msg |-> msg, okrug |-> okrug, rayon |-> rayon,
     addr |-> Str(T("x")), obj |-> NaN, topic |-> NaN, text |-> NaN,
     links |-> NaN, lat |-> lat, lon |-> lon]

GoodLat == Str(<<"5", ",", "5">>)
GoodLon == Str(<<"7", ".", "5">>)
\* rows that pass validation: two okrugs; district empty, plain, with a
\* leading space, another one
GoodRows ==
    {Row(Str(T("7")), Str(T(o)), r, GoodLat, GoodLon) :
        o \in {"A", "B"},
        r \in {NaN, Str(T("M")), Str(<<" ", "M">>), Str(T("K"))}}
\* rows that are rejected: no number; blank number and bad latitude;
\* unparsable latitude; latitude out of range; no longitude
BadRows ==
    {Row(NaN, Str(T("A")), Str(T("M")), GoodLat, GoodLon),
     Row(Str(T(" ")), Str(T("A")), Str(T("M")), Str(T("x")), GoodLon),
     Row(Str(T("7")), Str(T("A")), Str(T("M")), Str(T("x")), GoodLon),
     Row(Str(T("7")), Str(T("A")), Str(T("M")), Str(<<"9", "5">>), GoodLon),
     Row(Str(T("7")), Str(T("A")), Str(T("M")), GoodLat, NaN)}
RowKinds == GoodRows \cup BadRows

Tables == UNION {[1..n -> RowKinds] : n \in 0..MaxRows}

\* sheets lacking required columns: the code raises before reading a row
ColumnSets ==
    {AllColumns, AllColumns \ {"rayon"}, AllColumns \ {"okrug", "lat"},
     AllColumns \ {"lon"}}

Init ==
    /\ pc = "suffix"
    /\ excel_path \in PathNames
    /\ out_file \in {Absent, Old}
    /\ FreshLocals
    /\ IdleFloat
    /\ IdleDesc
    /\ IdleDir

\* lines 131-132
CheckSuffix ==
    /\ pc = "suffix"
    /\ IF suffix_supported(excel_path)
       THEN pc' = "read" /\ UNCHANGED raised
       ELSE pc' = "raised" /\ raised' = [type |-> "SystemExit", what |-> "suffix"]
    /\ UNCHANGED <<excel_path, out_file, df_columns, df, lat_num, lon_num,
                   problems, mask, df_valid, style_ids, doc, okrug_folders,
                   folder_map, written, it, ret, floatVars, descVars, dirVars>>

\* line 134: the sheet read
ReadExcel ==
    /\ pc = "read"
    /\ \E cols \in ColumnSets :
         /\ df_columns' = cols
         /\ df' \in (IF cols = AllColumns THEN Tables ELSE {<<>>})
    /\ pc' = "columns"
    /\ UNCHANGED <<excel_path, out_file, lat_num, lon_num, problems, mask,
                   df_valid, style_ids, doc, okrug_folders, folder_map,
                   written, it, raised, ret, floatVars, descVars, dirVars>>

\* line 134: pd.read_excel raises (no such sheet, not a workbook)
ReadExcelRaises ==
    /\ pc = "read"
    /\ pc' = "raised"
    /\ raised' = [type |-> "Exception", what |-> "read_excel"]
    /\ UNCHANGED <<excel_path, out_file, df_columns, df, lat_num, lon_num,
                   problems, mask, df_valid, style_ids, doc, okrug_folders,
                   folder_map, written, it, ret, floatVars, descVars, dirVars>>

\* CheckColumns with the output file opened for writing before the columns are verified
CheckColumns_opens_output ==
    /\ pc = "columns"
    /\ out_file' = [state |-> "written", doc |-> NoDoc]
    /\ IF missing_col(df_columns) = 0
       THEN pc' = "normalize" /\ UNCHANGED raised
       ELSE /\ pc' = "raised"
            /\ raised' = [type |-> "SystemExit",
                          what |-> required_cols[missing_col(df_columns)]]
    /\ UNCHANGED <<excel_path, df_columns, df, lat_num, lon_num,
                   problems, mask, df_valid, style_ids, doc, okrug_folders,
                   folder_map, written, it, ret, floatVars, descVars, dirVars>>

\* lines 147-149
CheckColumns ==
    /\ pc = "columns"
    /\ IF missing_col(df_columns) = 0
       THEN pc' = "normalize" /\ UNCHANGED raised
       ELSE /\ pc' = "raised"
            /\ raised' = [type |-> "SystemExit",
                          what |-> required_cols[missing_col(df_columns)]]
    /\ UNCHANGED <<excel_path, out_file, df_columns, df, lat_num, lon_num,
                   problems, mask, df_valid, style_ids, doc, okrug_folders,
                   folder_map, written, it, ret, floatVars, descVars, dirVars>>

\* lines 152-155
Normalize ==
    /\ pc = "normalize"
    /\ lat_num' = [k \in 1..Len(df) |-> ensure_float(df[k].lat)]
    /\ lon_num' = [k \in 1..Len(df) |-> ensure_float(df[k].lon)]
    /\ problems' = <<>>
    /\ pc' = "apply"
    /\ UNCHANGED <<excel_path, out_file, df_columns, df, mask, df_valid,
                   style_ids, doc, okrug_folders, folder_map, written, it,
                   raised, ret, floatVars, descVars, dirVars>>

\* line 169, one row of df.apply(valid_row, axis=1): rows are visited in
\* order, each once.  (On a sheet without rows pandas probes valid_row with
\* one all-NaN row whose name is None; building the diagnostic raises and
\* pandas swallows it, so nothing is appended.)
ApplyValidRow ==
    /\ pc = "apply"
    /\ Len(mask) < Len(df)
    /\ LET k == Len(mask) + 1
           v == valid_row(df[k], lat_num[k], lon_num[k], k)
       IN  /\ mask' = Append(mask, v.valid)
           /\ problems' = problems \o v.problems
    /\ UNCHANGED <<pc, excel_path, out_file, df_columns, df, lat_num, lon_num,
                   df_valid, style_ids, doc, okrug_folders, folder_map,
                   written, it, raised, ret, floatVars, descVars, dirVars>>

\* the positions k with mask[k], in order
RECURSIVE Selected(_, _)
Selected(m, k) ==
    IF k > Len(m) THEN <<>>
    ELSE (IF m[k] THEN <<k>> ELSE <<>>) \o Selected(m, k + 1)

\* lines 169-204: df_valid, the root, the styles, the empty folder maps
BuildDocument ==
    /\ pc = "apply"
    /\ Len(mask) = Len(df)
    /\ LET valid == Selected(mask, 1)
           districts == sorted(district_set(df, valid))
       IN  /\ df_valid' = valid
           /\ style_ids' =
                [d \in {districts[i] : i \in 1..Len(districts)} |-> style_id(d)]
           /\ doc' = [name |-> OutName,
                      styles |-> [i \in 1..Len(districts) |->
                                    create_style(style_id(districts[i]),
                                        kml_color_from_district(districts[i]))],
                      folders |-> <<>>]
    /\ okrug_folders' = <<>>
    /\ folder_map' = <<>>
    /\ written' = 0
    /\ it' = 0
    /\ pc' = "rows"
    /\ UNCHANGED <<excel_path, out_file, df_columns, df, lat_num, lon_num,
                   problems, mask, raised, ret, floatVars, descVars, dirVars>>

\* lines 205-230, one iteration
PlaceRow ==
    /\ pc = "rows"
    /\ it < Len(df_valid)
    /\ LET k == df_valid[it + 1]
           row == df[k]
           okrug == strip(str(row.okrug))
           rayon == strip(str(row.rayon))
           st == get_pair_folder(
                    [doc |-> doc, okrug_folders |-> okrug_folders,
                     folder_map |-> folder_map], okrug, rayon)
           at == st.folder_map[<<okrug, rayon>>]
           pm == placemark(row, k, lat_num[k], lon_num[k], rayon, style_ids)
       IN  /\ doc' = [st.doc EXCEPT
                        !.folders[at[1]].folders[at[2]].placemarks = Append(@, pm)]
           /\ okrug_folders' = st.okrug_folders
           /\ folder_map' = st.folder_map
    /\ written' = written + 1
    /\ it' = it + 1
    /\ UNCHANGED <<pc, excel_path, out_file, df_columns, df, lat_num, lon_num,
                   problems, mask, df_valid, style_ids, raised, ret,
                   floatVars, descVars, dirVars>>

\* lines 233-235
WriteFile ==
    /\ pc = "rows"
    /\ it = Len(df_valid)
    /\ out_file' = [state |-> "written", doc |-> doc]
    /\ pc' = "return"
    /\ UNCHANGED <<excel_path, df_columns, df, lat_num, lon_num, problems,
                   mask, df_valid, style_ids, doc, okrug_folders, folder_map,
                   written, it, raised, ret, floatVars, descVars, dirVars>>

\* line 237
Return ==
    /\ pc = "return"
    /\ ret' = [total |-> Len(df), written |-> written, problems |-> problems]
    /\ pc' = "done"
    /\ UNCHANGED <<excel_path, out_file, df_columns, df, lat_num, lon_num,
                   problems, mask, df_valid, style_ids, doc, okrug_folders,
                   folder_map, written, it, raised, floatVars, descVars, dirVars>>

Next ==
    \/ CheckSuffix
    \/ ReadExcel
    \/ ReadExcelRaises
    \/ CheckColumns
    \/ Normalize
    \/ ApplyValidRow
    \/ BuildDocument
    \/ PlaceRow
    \/ WriteFile
    \/ Return

Spec == Init /\ [][Next]_vars

\* ------------------------------------------------------------ process_dir
N6(a, b, c, d, e, f) == <<a, b, c, d, e, f>>
\* the names a directory may hold: a.xlsx, a.xlsm, b.xlsx, ab.xlsm, the lock
\* file ~$a.xlsx, and b.xls
FileNames ==
    {N6("a", ".", "x", "l", "s", "x"), N6("a", ".", "x", "l", "s", "m"),
     N6("b", ".", "x", "l", "s", "x"),
     <<"a", "b", ".", "x", "l", "s", "m">>,
     <<"~", "$", "a", ".", "x", "l", "s", "x">>,
     <<"b", ".", "x", "l", "s">>}

\* how a call of excel_to_kml can end: it returns after writing out_path, or
\* raises SystemExit (line 149) or another exception (line 134) before
\* writing
ConvEnds == {"returned", "SystemExit", "Exception"}

InitDir ==
    /\ p_pc = "start"
    /\ in_dir_exists \in BOOLEAN
    /\ in_dir \in {S \in SUBSET FileNames : Cardinality(S) <= MaxFiles}
    /\ (~in_dir_exists => in_dir = {})
    /\ FreshDir
    /\ IdleFloat
    /\ IdleDesc
    /\ IdleConv

\* lines 257-267
StartDir ==
    /\ p_pc = "start"
    /\ IF ~in_dir_exists
       THEN /\ p_ret' = 0 /\ p_pc' = "done"
            /\ UNCHANGED <<out_made, excel_files, ok_count>>
       ELSE /\ out_made' = TRUE
            /\ excel_files' = collect_excel_files(in_dir)
            /\ IF collect_excel_files(in_dir) = <<>>
               THEN p_ret' = 0 /\ p_pc' = "done" /\ UNCHANGED ok_count
               ELSE ok_count' = 0 /\ p_pc' = "loop" /\ UNCHANGED p_ret
    /\ UNCHANGED <<in_dir_exists, in_dir, out_dir, xi, log, conv_results,
                   floatVars, descVars, convVars>>

\* ConvertFile without the handler of line 280: SystemExit ends the batch
ConvertFile_return_on_exit(end) ==
    /\ p_pc = "loop"
    /\ xi < Len(excel_files)
    /\ LET x == excel_files[xi + 1]
           out_name == derive_out_name(x)
       IN  IF end = "returned"
           THEN /\ out_dir' = [n \in DOMAIN out_dir \cup {out_name} |->
                                 IF n = out_name THEN x ELSE out_dir[n]]
                /\ log' = Append(log, [tag |-> "OK", file |-> x, out |-> out_name])
                /\ ok_count' = ok_count + 1
           ELSE /\ log' = Append(log, [tag |-> "ERR", file |-> x, out |-> <<>>])
                /\ UNCHANGED <<out_dir, ok_count>>
    /\ conv_results' = Append(conv_results, end)
    /\ xi' = IF end = "SystemExit" THEN Len(excel_files) ELSE xi + 1
    /\ UNCHANGED <<p_pc, in_dir_exists, in_dir, out_made, excel_files, p_ret,
                   floatVars, descVars, convVars>>

\* lines 270-283, one iteration: excel_to_kml(x, sheet_name, out_path) ends
\* as `end`
ConvertFile(end) ==
    /\ p_pc = "loop"
    /\ xi < Len(excel_files)
    /\ LET x == excel_files[xi + 1]
           out_name == derive_out_name(x)
       IN  IF end = "returned"
           THEN /\ out_dir' = [n \in DOMAIN out_dir \cup {out_name} |->
                                 IF n = out_name THEN x ELSE out_dir[n]]
                /\ log' = Append(log, [tag |-> "OK", file |-> x, out |-> out_name])
                /\ ok_count' = ok_count + 1
           ELSE /\ log' = Append(log, [tag |-> "ERR", file |-> x, out |-> <<>>])
                /\ UNCHANGED <<out_dir, ok_count>>
    /\ conv_results' = Append(conv_results, end)
    /\ xi' = xi + 1
    /\ UNCHANGED <<p_pc, in_dir_exists, in_dir, out_made, excel_files, p_ret,
                   floatVars, descVars, convVars>>

\* line 284
ReturnCount ==
    /\ p_pc = "loop"
    /\ xi = Len(excel_files)
    /\ p_ret' = ok_count
    /\ p_pc' = "done"
    /\ UNCHANGED <<in_dir_exists, in_dir, out_made, out_dir, excel_files, xi,
                   ok_count, log, conv_results, floatVars, descVars, convVars>>

NextDir ==
    \/ StartDir
    \/ \E end \in ConvEnds : ConvertFile(end)
    \/ ReturnCount

SpecDir == InitDir /\ [][NextDir]_vars

\* ============================================================ claims

\* ------------------------------------------------------------ helpers
\* the claim's validation rule for row k of the sheet
PassesValidation(k) ==
    LET r == df[k]
        lat == ensure_float(r.lat)
        lon == ensure_float(r.lon)
    IN  /\ ~r.msg.isna /\ strip(r.msg.s) # <<>>
        /\ ~lat.none /\ ~lon.none
        /\ -90 * lat.den <= lat.num /\ lat.num <= 90 * lat.den
        /\ -180 * lon.den <= lon.num /\ lon.num <= 180 * lon.den

EmptyNumber(k) == df[k].msg.isna \/ strip(df[k].msg.s) = <<>>

\* where the placemarks of a document are: <<okrug folder, district folder,
\* position>>
PlacemarkAt(d) ==
    UNION {UNION {{<<i, j, n>> : n \in 1..Len(d.folders[i].folders[j].placemarks)} :
                    j \in 1..Len(d.folders[i].folders)} :
             i \in 1..Len(d.folders)}

Pm(d, at) == d.folders[at[1]].folders[at[2]].placemarks[at[3]]

\* a sequence without its repetitions, first occurrences kept in order
RECURSIVE FirstSeen(_)
FirstSeen(q) ==
    IF q = <<>> THEN <<>>
    ELSE LET front == FirstSeen(SubSeq(q, 1, Len(q) - 1))
             last == q[Len(q)]
         IN  IF \E i \in 1..Len(front) : front[i] = last THEN front
             ELSE Append(front, last)

\* a finite set of numbers as an increasing sequence
RECURSIVE Ascending(_)
Ascending(S) ==
    IF S = {} THEN <<>>
    ELSE LET least == CHOOSE x \in S : \A y \in S : x <= y
         IN  <<least>> \o Ascending(S \ {least})

\* the elements of q that satisfy P, in order
Keep(q, P(_)) ==
    LET idx == Ascending({i \in 1..Len(q) : P(q[i])})
    IN  [n \in 1..Len(idx) |-> q[idx[n]]]

\* ------------------------------------------------------------ C1
\* C1: when excel_to_kml has returned, the document written holds exactly
\* one Placemark for every row that passes validation and none for a
\* rejected row; each Placemark, named after its row's message number, lies
\* in the folder of its row's (okrug, district) pair; and the written count
\* returned is the number of rows that pass validation.
C1_OnePlacemarkPerValidatedRow ==
    pc = "done" =>
        LET d == out_file.doc
        IN  /\ out_file.state = "written"
            /\ \A k \in 1..Len(df) :
                 Cardinality({at \in PlacemarkAt(d) : Pm(d, at).row = k})
                    = IF PassesValidation(k) THEN 1 ELSE 0
            /\ \A at \in PlacemarkAt(d) :
                 LET r == df[Pm(d, at).row]
                 IN  /\ d.folders[at[1]].name = strip(str(r.okrug))
                     /\ d.folders[at[1]].folders[at[2]].name = strip(str(r.rayon))
                     /\ Pm(d, at).name = strip(str(r.msg))
            /\ ret.written = Cardinality({k \in 1..Len(df) : PassesValidation(k)})
            /\ ret.total = Len(df)

\* C1 witness: a sheet of three rows, two accepted and one rejected, has been
\* converted
C1_Witness ==
    /\ pc = "done"
    /\ Len(df) = 3
    /\ ret.written = 2
    /\ Cardinality(PlacemarkAt(out_file.doc)) = 2

\* ------------------------------------------------------------ C2
RejectedRow(k) == ~PassesValidation(k)
ExpectedReason(k) == IF EmptyNumber(k) THEN "empty" ELSE "coords"

\* C2: when excel_to_kml has returned, the diagnostics are, in row order,
\* one per rejected row and none for an accepted row; a row whose message
\* number is empty or blank gets the "empty" diagnostic with its 1-based
\* position even when its coordinates are bad too, any other rejected row the
\* "coords" diagnostic; so their number is total rows minus placemarks
\* written.
C2_OneDiagnosticPerRejectedRow ==
    pc = "done" =>
        LET rejected == Keep([k \in 1..Len(df) |-> k], RejectedRow)
        IN  /\ Len(ret.problems) = Len(rejected)
            /\ \A i \in 1..Len(rejected) :
                 /\ ret.problems[i].row = rejected[i]
                 /\ ret.problems[i].reason = ExpectedReason(rejected[i])
            /\ Len(ret.problems) = ret.total - ret.written

\* C2 witness: a row with a blank number and an unparsable latitude was
\* reported as "empty", after an accepted row and before a "coords" one
C2_Witness ==
    /\ pc = "done"
    /\ Len(df) = 3
    /\ PassesValidation(1)
    /\ EmptyNumber(2) /\ ensure_float(df[2].lat).none
    /\ ~EmptyNumber(3) /\ RejectedRow(3)
    /\ Len(ret.problems) = 2
    /\ ret.problems[1].reason = "empty" /\ ret.problems[1].row = 2
    /\ ret.problems[2].reason = "coords" /\ ret.problems[2].row = 3

\* ------------------------------------------------------------ C3
HasToken(text, tok) == \E i \in 1..Len(text) : text[i] = tok
NonEmptyCell(cell) == ~cell.isna /\ strip(cell.s) # <<>>

\* C3: the description of a row has the label of a field (address, object,
\* topic, text, photos) exactly when that field's cell is non-empty after
\* trimming; an absent or blank cell gives no label and no hyperlink.
C3_LabelsOnlyForNonEmptyFields ==
    d_pc \in {"serialize", "written"} =>
        /\ HasToken(d_desc, LabelAddr) <=> NonEmptyCell(d_row.addr)
        /\ HasToken(d_desc, LabelObj) <=> NonEmptyCell(d_row.obj)
        /\ HasToken(d_desc, LabelTopic) <=> NonEmptyCell(d_row.topic)
        /\ HasToken(d_desc, LabelText) <=> NonEmptyCell(d_row.text)
        /\ HasToken(d_desc, LabelPhoto) <=> NonEmptyCell(d_row.links)
        /\ HasToken(d_desc, "href=") => NonEmptyCell(d_row.links)

\* ------------------------------------------------------------ C4
\* C4: when excel_to_kml has returned, one style is registered for every
\* distinct district of the validated rows, and every Placemark whose
\* district, as it appears in the sheet, has a registered style carries the
\* reference to that style; the reference is left out only when the district
\* has no style.
C4_PlacemarkStyledByItsDistrict ==
    pc = "done" =>
        LET d == out_file.doc
            present == {df[k].rayon.s :
                          k \in {j \in 1..Len(df) :
                                   PassesValidation(j) /\ ~df[j].rayon.isna}}
        IN  /\ DOMAIN style_ids = present
            /\ Len(d.styles) = Cardinality(present)
            /\ \A at \in PlacemarkAt(d) :
                 LET cell == df[Pm(d, at).row].rayon
                 IN  IF ~cell.isna /\ cell.s \in DOMAIN style_ids
                     THEN Pm(d, at).styleUrl = <<"#">> \o style_ids[cell.s]
                     ELSE Pm(d, at).styleUrl = <<>>

\* ------------------------------------------------------------ C5
\* C5: the description block reaches the serialized document literally: the
\* text between <description> and </description> is the block
\* build_description returned, its markup characters unescaped.
C5_DescriptionSerializedLiterally ==
    d_pc = "written" =>
        d_xml = <<"<", "description", ">">> \o d_desc
                \o <<"<", "/", "description", ">">>

\* ------------------------------------------------------------ C6
\* the rows of df_valid the loop has placed, as (okrug, district) names
PlacedKeys ==
    [i \in 1..it |-> <<strip(str(df[df_valid[i]].okrug)),
                       strip(str(df[df_valid[i]].rayon))>>]

FolderNames(folders) == [i \in 1..Len(folders) |-> folders[i].name]

\* C6: at every point of the placing loop there is one top-level folder per
\* okrug and one second-level folder per (okrug, district) pair met so far,
\* each second-level folder a child of its okrug's folder, and the siblings
\* stand in the order their key was first met in the rows; so no folder is
\* ever removed or moved.
C6_FoldersUniqueInFirstSeenOrder ==
    pc \in {"rows", "return", "done"} =>
        LET okrugs == FirstSeen([i \in 1..it |-> PlacedKeys[i][1]])
        IN  /\ FolderNames(doc.folders) = okrugs
            /\ DOMAIN okrug_folders = {okrugs[i] : i \in 1..Len(okrugs)}
            /\ \A i \in 1..Len(okrugs) :
                 /\ okrug_folders[okrugs[i]] = i
                 /\ FolderNames(doc.folders[i].folders) =
                      FirstSeen([n \in 1..Len(Keep(PlacedKeys, LAMBDA key : key[1] = okrugs[i]))
                                   |-> Keep(PlacedKeys, LAMBDA key : key[1] = okrugs[i])[n][2]])
            /\ DOMAIN folder_map = {PlacedKeys[i] : i \in 1..it}
            /\ \A key \in DOMAIN folder_map :
                 LET at == folder_map[key]
                 IN  /\ at[1] = okrug_folders[key[1]]
                     /\ doc.folders[at[1]].name = key[1]
                     /\ doc.folders[at[1]].folders[at[2]].name = key[2]

\* C6 witness: three rows placed, okrug B met before okrug A, and the pair
\* (B, M) met twice: two top-level folders, B first
C6_Witness ==
    /\ pc = "rows"
    /\ it = 3
    /\ Len(doc.folders) = 2
    /\ doc.folders[1].name = <<"B">>
    /\ doc.folders[2].name = <<"A">>
    /\ Len(doc.folders[1].folders) = 1
    /\ Len(doc.folders[1].folders[1].placemarks) = 2

\* ------------------------------------------------------------ C7
\* the candidates of a directory, by the claim's words: the names with one
\* of the two extensions that are no lock files
Candidates ==
    {n \in in_dir : suffix(n) \in {XLSX, XLSM} /\ ~(n[1] = "~" /\ n[2] = "$")}

\* C7: when process_dir has returned for an existing directory, every
\* candidate has been attempted exactly once, in name order, whichever
\* conversions failed; every failure has been reported; and the count
\* returned is the number of conversions that ended without an error.
C7_EveryCandidateAttemptedOnce ==
    (p_pc = "done" /\ in_dir_exists) =>
        /\ Len(log) = Cardinality(Candidates)
        /\ Len(conv_results) = Len(log)
        /\ \A i \in 1..Len(log) : log[i].file \in Candidates
        /\ \A i, j \in 1..Len(log) : i < j => LexLess(log[i].file, log[j].file)
        /\ \A i \in 1..Len(log) :
             log[i].tag = (IF conv_results[i] = "returned" THEN "OK" ELSE "ERR")
        /\ p_ret = Cardinality({i \in 1..Len(log) : conv_results[i] = "returned"})

\* C7 witness: the first of three candidates ended with SystemExit, the
\* second with another exception, the third was converted
C7_Witness ==
    /\ p_pc = "done"
    /\ Len(log) = 3
    /\ conv_results = <<"SystemExit", "Exception", "returned">>
    /\ p_ret = 1

\* ------------------------------------------------------------ C8
\* C8: when process_dir has returned, every input converted successfully has
\* its own output file, made from it, in the target directory, and the
\* number of output files equals the count returned.
C8_OneOutputPerConvertedInput ==
    (p_pc = "done" /\ in_dir_exists) =>
        /\ \A i \in 1..Len(log) :
             conv_results[i] = "returned" =>
                /\ derive_out_name(log[i].file) \in DOMAIN out_dir
                /\ out_dir[derive_out_name(log[i].file)] = log[i].file
        /\ Cardinality(DOMAIN out_dir) = p_ret

\* ------------------------------------------------------------ C9
AnyWhitespace == {" ", TAB, NL, NBSP}
\* the canonical form of a coordinate text: every whitespace character
\* removed, comma made a dot
Canonical(text) ==
    replace(Concat([i \in 1..Len(text) |->
                      IF text[i] \in AnyWhitespace THEN <<>> ELSE <<text[i]>>]),
            ",", <<".">>)

\* C9: ensure_float returns, for every text, the value of its canonical
\* dot-separated form, whatever whitespace (space, tab, non-breaking space,
\* newline) stands before, after or inside it and whichever separator it
\* uses; it returns None exactly for a missing value or a text whose
\* canonical form is no decimal number.
C9_SameValueAsCanonicalForm ==
    coord_pc = "returned" =>
        coord_out = IF coord_in.isna THEN NoFloat
                    ELSE PyFloat(Canonical(coord_in.s))

\* ------------------------------------------------------------ C10
\* C10: the file at out_path changes in one step only, the write step, taken
\* after every row has been validated and every validated row placed, and
\* followed by the return; a run that ends with a file-level error (a
\* missing column is reported for the first missing one, in the order of
\* required_cols) leaves the file as it was.
C10_Step ==
    /\ out_file' # out_file =>
         /\ pc = "rows" /\ pc' = "return"
         /\ Len(mask) = Len(df)
         /\ it = Len(df_valid)
         /\ Cardinality(PlacemarkAt(out_file'.doc))
              = Cardinality({k \in 1..Len(mask) : mask[k]})
    /\ pc' = "raised" =>
         /\ out_file' = out_file
         /\ out_file \in {Absent, Old}
         /\ raised'.type \in {"SystemExit", "Exception"}
         /\ (raised'.what \in AllColumns =>
               /\ raised'.what \notin df_columns
               /\ \A i \in 1..Len(required_cols) :
                    required_cols[i] \notin df_columns =>
                       \E j \in 1..i : required_cols[j] = raised'.what)
    /\ pc \in {"return", "done"} => pc' # "raised"

C10_NoOutputOnFileError == [][C10_Step]_vars

\* C10 witness: a sheet lacking the okrug and latitude columns was refused
\* for the okrug column, and the file that was at out_path is still there
C10_Witness ==
    /\ pc = "raised"
    /\ raised = [type |-> "SystemExit", what |-> "okrug"]
    /\ df_columns = AllColumns \ {"okrug", "lat"}
    /\ out_file = Old

====
